---- MODULE Spec2Model ----
(***************************************************************************)
(* Delivery-session subsystem of CONNECTION-BACKEND: the Delivery rows and *)
(* the HTTP handlers that change them (driver_routes, receiver_routes,     *)
(* admin_routes), and the Socket.IO handlers that join rooms and relay     *)
(* location updates (app.py, routes/socket_events.py).                     *)
(***************************************************************************)
EXTENDS Integers, Sequences, FiniteSets, TLC

VARIABLES
    deliveries,   \* the deliveries table: deliveries[pk] is the row with primary key pk
    now,          \* datetime.utcnow(), as a counter
    db_up,        \* whether db.session.commit() succeeds
    conns,        \* conns[sid]: session user_id of the connected socket, or Absent
    rooms,        \* rooms[sid]: the Socket.IO rooms socket sid is in
    event,        \* the request handled by the last step, and its outcome
    locations,    \* the delivery_locations table: the stored positions
    wire,         \* requests received and not yet handled, and the room
                  \* events each socket has received, in order
    users         \* users[uid]: the driver statistics of the users row

vars == <<deliveries, now, db_up, conns, rooms, event, locations, wire, users>>

----------------------------------------------------------------------------
(* Bounds *)
MaxDeliveries == 1
MaxConns == 2
MaxClock == 1

----------------------------------------------------------------------------
(* Identities and keys *)

\* users table: two registered drivers (driver_auth registers role="driver")
NumUsers == 2
UserIds == 1..NumUsers
NoUser == 0                       \* session.get("user_id") is None
StaleUid == NumUsers + 1          \* a session user_id with no row in users
SessionUids == {NoUser} \cup UserIds \cup {StaleUid}

UserQueryGet(uid) == IF uid \in UserIds THEN uid ELSE NoUser
UserRole(uid) == "driver"

\* Delivery.delivery_id, the public identifier, is a uuid4 string: a value
\* space disjoint from the integer primary keys.
UuidBase == 100
PublicId(pk) == UuidBase + pk

NoKey == 0                        \* a missing or falsy delivery_id in a request
Pks == 1..MaxDeliveries
Keys == {NoKey} \cup Pks \cup {PublicId(pk) : pk \in Pks}

None == -1                        \* a null column
Absent == -1                      \* no socket with this sid
Sids == 1..MaxConns

\* Delivery.query.get(key): lookup by integer primary key; 0 stands for None
DeliveryQueryGet(key) == IF key \in 1..Len(deliveries) THEN key ELSE 0

\* Delivery.query.filter_by(delivery_id=key).first(); 0 stands for None
DeliveryByDeliveryId(key) ==
    IF \E pk \in 1..Len(deliveries) : PublicId(pk) = key
    THEN CHOOSE pk \in 1..Len(deliveries) : PublicId(pk) = key
    ELSE 0

StatusOf(pk) == IF pk = 0 THEN "" ELSE deliveries[pk].status

----------------------------------------------------------------------------
(* The record of the last handled request *)

NoOut == [s \in Sids |-> 0]

NoPayload == <<>>

\* op: handler (the handlers of socket_events.py that share an event name
\* with app.py carry the prefix "legacy_"); sid: sending socket (0 for HTTP);
\* uid: caller identity;
\* target: the row the request's delivery_id resolved to (0: none);
\* before: that row's status before handling; code: HTTP status (0 for socket
\* events); reply: event emitted to the originator only; bcast: event emitted
\* to a room; room: that room (for a refusal of app.py, the room the request
\* names); out[s]: copies of the room event delivered to socket s; payload: the coordinates and speed the room event carries (for
\* join_delivery, the role asked for; for a refused update, the coordinates
\* of the request).
Ev(op, sid, uid, target, code, reply, bcast, room, out, payload) ==
    [op |-> op, sid |-> sid, uid |-> uid, target |-> target,
     before |-> StatusOf(target), code |-> code, reply |-> reply,
     bcast |-> bcast, room |-> room, out |-> out, payload |-> payload]

NoRoom == <<"", NoKey>>

Http(op, uid, key, target, code) ==
    Ev(op, 0, uid, target, code, "", "", NoRoom, NoOut, NoPayload)

\* a socket event answered to the originator only
Reply(op, sid, target, reply) ==
    Ev(op, sid, conns[sid], target, 0, reply, "", NoRoom, NoOut, NoPayload)

\* wire.sent: the number of requests received; wire.inflight: the requests
\* whose handler has not finished yet; wire.inbox[s]: the room events
\* socket s has received, oldest first, each <<sending socket, number,
\* latitude, longitude>>
NoWire == [sent |-> 0, inflight |-> {}, inbox |-> [s \in Sids |-> <<>>]]

\* User.total_sessions (default 0) and User.last_session_at (nullable) of the
\* drivers of a table of sessions created at clock 0
UsersOf(table) ==
    [u \in UserIds |->
        LET own == {pk \in 1..Len(table) : table[pk].driver_id = u} IN
        [total_sessions |-> Cardinality(own),
         last_session_at |-> IF own = {} THEN None ELSE 0]]

----------------------------------------------------------------------------
Init ==
    /\ deliveries = <<>>
    /\ now = 0
    /\ db_up = TRUE
    /\ conns = [s \in Sids |-> Absent]
    /\ rooms = [s \in Sids |-> {}]
    /\ locations = {}
    /\ wire = NoWire
    /\ users = UsersOf(<<>>)
    /\ event = Http("init", NoUser, NoKey, 0, 0)

Tick ==
    /\ now < MaxClock
    /\ now' = now + 1
    /\ event' = Http("tick", NoUser, NoKey, 0, 0)
    /\ UNCHANGED <<deliveries, db_up, locations, users, wire, conns, rooms>>

----------------------------------------------------------------------------
(* driver_routes.py *)

\* users.trial_end_date: driver 1 is within the trial for the whole run, every
\* other driver's trial ended before it
trial_end_date(driver) == IF driver = 1 THEN MaxClock + 1 ELSE 0

\* `if trial_end and now < trial_end: return True`, then `return True`
driver_has_active_subscription(driver) ==
    IF trial_end_date(driver) # None /\ now < trial_end_date(driver) THEN TRUE ELSE TRUE

\* receiver_phone inputs: "" (missing), "bad" (normalizeRwandaNumber gives
\* None), "ok" (normalizes to a 12-digit number)
PhoneInputs == {"", "bad", "ok"}

\* utils.normalizeRwandaNumber: the 12-digit form, or "" for its None
normalizeRwandaNumber(phone) == IF phone = "ok" THEN "250788123456" ELSE ""

\* the Delivery(...) row of create_session; the other columns take their defaults
NewDelivery(uid, normalized_phone) ==
    [driver_id |-> uid, receiver_phone |-> normalized_phone, status |-> "pending",
     started_at |-> None, completed_at |-> None, cancelled_at |-> None]

\* driver.last_session_at = utcnow(); driver.total_sessions = (total or 0) + 1,
\* where total is the value the request loaded with the driver row
DriverStats(uid, total) ==
    [users EXCEPT ![uid] = [total_sessions |-> total + 1, last_session_at |-> now]]

\* db.session.rollback(): the pending changes of the request are discarded
RollbackKeepingStatus(table, pk) ==
    [table EXCEPT ![pk].status = "completed"]
Rollback(table, pk) == table

create_session(uid, phone) ==
    /\ Len(deliveries) < MaxDeliveries
    /\ LET pk == Len(deliveries) + 1
           row == NewDelivery(uid, normalizeRwandaNumber(phone))
       IN
       IF uid = NoUser \/ UserQueryGet(uid) = NoUser
       THEN /\ event' = Http("create_session", uid, NoKey, 0, 401)
            /\ UNCHANGED <<deliveries, users>>
       ELSE IF normalizeRwandaNumber(phone) = ""
       THEN /\ event' = Http("create_session", uid, NoKey, 0, 400)
            /\ UNCHANGED <<deliveries, users>>
       ELSE IF ~driver_has_active_subscription(uid)
       THEN /\ event' = Http("create_session", uid, NoKey, 0, 403)
            /\ UNCHANGED <<deliveries, users>>
       ELSE IF ~db_up
       THEN \* commit raises: rollback, 500
            /\ event' = Http("create_session", uid, NoKey, 0, 500)
            /\ UNCHANGED <<deliveries, users>>
       ELSE \* committed; url_for("tracking_page") then names an endpoint that
            \* is registered as "receiver_bp.tracking_page": BuildError, caught
            \* by `except Exception`, 500 with the row already committed
            /\ deliveries' = Append(deliveries, row)
            /\ users' = DriverStats(uid, users[uid].total_sessions)
            /\ event' = Http("create_session", uid, PublicId(pk), 0, 500)
    /\ UNCHANGED <<now, db_up, locations, wire, conns, rooms>>

EndSessionStatusFlapping(old) == IF old = "completed" THEN "active" ELSE "completed"
\* delivery.status = "completed", whatever the status was
EndSessionStatus(old) == "completed"

end_session(uid, key) ==
    /\ LET pk == DeliveryByDeliveryId(key) IN
       IF uid = NoUser
       THEN /\ event' = Http("end_session", uid, key, 0, 401)
            /\ UNCHANGED deliveries
       ELSE IF key = NoKey
       THEN /\ event' = Http("end_session", uid, key, 0, 400)
            /\ UNCHANGED deliveries
       ELSE IF pk = 0
       THEN /\ event' = Http("end_session", uid, key, 0, 404)
            /\ UNCHANGED deliveries
       ELSE IF deliveries[pk].driver_id # uid
       THEN /\ event' = Http("end_session", uid, key, pk, 403)
            /\ UNCHANGED deliveries
       ELSE IF ~db_up
       THEN \* commit raises: rollback, 500
            /\ event' = Http("end_session", uid, key, pk, 500)
            /\ deliveries' = Rollback(deliveries, pk)
       ELSE /\ deliveries' = [deliveries EXCEPT ![pk].status = EndSessionStatus(@),
                                                ![pk].completed_at = now]
            /\ event' = Http("end_session", uid, key, pk, 200)
    /\ UNCHANGED <<now, db_up, locations, users, wire, conns, rooms>>

----------------------------------------------------------------------------
(* receiver_routes.py *)

end_delivery(key) ==
    /\ LET pk == DeliveryByDeliveryId(key) IN
       IF key = NoKey
       THEN /\ event' = Http("end_delivery", NoUser, key, 0, 400)
            /\ UNCHANGED deliveries
       ELSE IF pk = 0
       THEN /\ event' = Http("end_delivery", NoUser, key, 0, 404)
            /\ UNCHANGED deliveries
       ELSE IF ~db_up
       THEN /\ event' = Http("end_delivery", NoUser, key, pk, 500)
            /\ deliveries' = Rollback(deliveries, pk)
       ELSE /\ deliveries' = [deliveries EXCEPT ![pk].status = "completed",
                                                ![pk].completed_at = now]
            /\ event' = Http("end_delivery", NoUser, key, pk, 200)
    /\ UNCHANGED <<now, db_up, locations, users, wire, conns, rooms>>

----------------------------------------------------------------------------
(* admin_routes.py *)

\* the status strings an admin request may carry ("" is a missing status)
StatusInputs == {"", "pending", "active", "completed", "cancelled", "failed"}

\* admin_required: the JWT identity must be an Admin row, else 403
update_delivery_status(is_admin, key, new_status, has_notes) ==
    /\ LET pk == DeliveryQueryGet(key) IN
       IF ~is_admin
       THEN /\ event' = Http("update_delivery_status", NoUser, key, 0, 403)
            /\ UNCHANGED deliveries
       ELSE IF new_status = ""
       THEN /\ event' = Http("update_delivery_status", NoUser, key, 0, 400)
            /\ UNCHANGED deliveries
       ELSE IF pk = 0
       THEN /\ event' = Http("update_delivery_status", NoUser, key, 0, 404)
            /\ UNCHANGED deliveries
       ELSE IF ~db_up
       THEN /\ event' = Http("update_delivery_status", NoUser, key, pk, 500)
            /\ UNCHANGED deliveries
       ELSE \* committed; without notes the response then reads
            \* delivery.notes, which Delivery does not define: 500
            /\ deliveries' = [deliveries EXCEPT ![pk].status = new_status]
            /\ event' = Http("update_delivery_status", NoUser, key, pk,
                             IF has_notes THEN 200 ELSE 500)
    /\ UNCHANGED <<now, db_up, locations, users, wire, conns, rooms>>

CancelledRowAnonymised(row) ==
    [row EXCEPT !.status = "cancelled", !.cancelled_at = now, !.receiver_phone = ""]
\* delivery.status = 'cancelled'; delivery.cancelled_at = utcnow(); notes and
\* refund_processed are not columns of Delivery
CancelledRow(row) ==
    [row EXCEPT !.status = "cancelled", !.cancelled_at = now]

cancel_delivery(is_admin, key) ==
    /\ LET pk == DeliveryQueryGet(key) IN
       IF ~is_admin
       THEN /\ event' = Http("cancel_delivery", NoUser, key, 0, 403)
            /\ UNCHANGED deliveries
       ELSE IF pk = 0
       THEN /\ event' = Http("cancel_delivery", NoUser, key, 0, 404)
            /\ UNCHANGED deliveries
       ELSE IF ~db_up
       THEN /\ event' = Http("cancel_delivery", NoUser, key, pk, 500)
            /\ UNCHANGED deliveries
       ELSE /\ deliveries' = [deliveries EXCEPT ![pk] = CancelledRow(@)]
            /\ event' = Http("cancel_delivery", NoUser, key, pk, 200)
    /\ UNCHANGED <<now, db_up, locations, users, wire, conns, rooms>>

----------------------------------------------------------------------------
(* Socket.IO: rooms and emit (flask_socketio) *)

\* room names: app.py uses str(delivery_id), socket_events.py uses
\* f"delivery_{delivery_id}"
AppRoom(key) == <<"", key>>
LegacyRoom(key) == <<"delivery_", key>>

\* emit(..., room=room, include_self=...) from socket `sender`: one copy to each
\* connected socket in the room, the sender skipped unless include_self.
\* `members` is the room membership at the time of the emit.
EmitToAll(members, room, sender, include_self) ==
    [s \in Sids |-> IF conns[s] # Absent /\ (include_self \/ s # sender)
                    THEN 1 ELSE 0]
Emit(members, room, sender, include_self) ==
    [s \in Sids |-> IF /\ conns[s] # Absent
                       /\ room \in members[s]
                       /\ (include_self \/ s # sender)
                    THEN 1 ELSE 0]

\* disconnect(): the server drops the socket and takes it out of its rooms
Dropped(f, sid, v) == [f EXCEPT ![sid] = v]

----------------------------------------------------------------------------
(* app.py *)

MIN_LAT == -90
MAX_LAT == 90
MIN_LNG == -180
MAX_LNG == 180
MAX_SPEED == 350

NoVal == 999                      \* a field missing from the request (None)
\* request coordinates: missing, latitude 0, in range, latitude out of range,
\* longitude out of range
CoordInputs == {<<NoVal, NoVal>>, <<0, 30>>, <<45, 30>>, <<91, 30>>, <<45, 181>>}
SpeedInputs == {50, 351}

validate_coordinates_lat_only(lat, lng) ==
    IF lat = NoVal \/ lng = NoVal THEN <<NoVal, NoVal>>
    ELSE IF ~(MIN_LAT <= lat /\ lat <= MAX_LAT) THEN <<NoVal, NoVal>>
    ELSE <<lat, lng>>
\* validate_coordinates: the pair, or <<NoVal, NoVal>> for (None, None)
validate_coordinates(lat, lng) ==
    IF lat = NoVal \/ lng = NoVal THEN <<NoVal, NoVal>>
    ELSE IF ~(MIN_LAT <= lat /\ lat <= MAX_LAT /\ MIN_LNG <= lng /\ lng <= MAX_LNG)
    THEN <<NoVal, NoVal>>
    ELSE <<lat, lng>>

\* data.get("speed", 0), coerced to 0 when out of range or not a number
CoerceSpeed(speed) ==
    IF speed = NoVal THEN 0
    ELSE IF speed < 0 \/ speed > MAX_SPEED THEN 0
    ELSE speed

\* authenticated_only_socketio: the session has a user_id and the user exists
Authenticated(sid) == conns[sid] # NoUser /\ UserQueryGet(conns[sid]) # NoUser

\* the decorator's refusal: emit("error") to the caller, then disconnect()
RefuseUnauthenticated(op, sid) ==
    /\ event' = Reply(op, sid, 0, "error")
    /\ conns' = Dropped(conns, sid, Absent)
    /\ rooms' = Dropped(rooms, sid, {})

ConnectRefusedAlt(uid) == uid = NoUser
\* `if not uid: return False` and `if not user: return False`
ConnectRefused(uid) == uid = NoUser \/ UserQueryGet(uid) = NoUser

on_connect(sid, uid) ==
    /\ conns[sid] = Absent
    /\ IF ConnectRefused(uid)
       THEN \* return False: the connection is refused
            /\ event' = Ev("connect", sid, uid, 0, 0, "refused", "", NoRoom, NoOut, NoPayload)
            /\ UNCHANGED conns
       ELSE /\ conns' = [conns EXCEPT ![sid] = uid]
            /\ event' = Ev("connect", sid, uid, 0, 0, "", "", NoRoom, NoOut, NoPayload)
    /\ UNCHANGED <<deliveries, now, db_up, locations, users, wire, rooms>>

\* on_disconnect (app.py) and handle_disconnect (socket_events.py) only log;
\* the server takes the socket out of its rooms
RowsAfterDisconnectCancelling(uid) ==
    [pk \in DOMAIN deliveries |->
        IF deliveries[pk].driver_id = uid /\ deliveries[pk].status \in {"pending", "active"}
        THEN [deliveries[pk] EXCEPT !.status = "cancelled", !.cancelled_at = now]
        ELSE deliveries[pk]]
\* the handler reads session["user_id"] and logs: no row is written
RowsAfterDisconnect(uid) == deliveries

on_disconnect(sid) ==
    /\ conns[sid] # Absent
    /\ event' = Reply("disconnect", sid, 0, "")
    /\ conns' = Dropped(conns, sid, Absent)
    /\ rooms' = Dropped(rooms, sid, {})
    /\ deliveries' = RowsAfterDisconnect(conns[sid])
    /\ UNCHANGED <<now, db_up, locations, users, wire>>

RoleInputs == {"driver", "receiver", "other"}

NotYourDeliveryAlt(pk, uid) == FALSE
\* delivery.driver_id != user.id
NotYourDelivery(pk, uid) == deliveries[pk].driver_id # uid

on_join_delivery(sid, key, role) ==
    /\ conns[sid] # Absent
    /\ LET uid == conns[sid]
           pk == DeliveryQueryGet(key)
           refused(target) ==
               /\ event' = Ev("join_delivery", sid, uid, target, 0, "error", "",
                              AppRoom(key), NoOut, <<role>>)
               /\ UNCHANGED <<conns, rooms>>
       IN
       IF ~Authenticated(sid) THEN RefuseUnauthenticated("join_delivery", sid)
       ELSE IF key = NoKey \/ role \notin {"driver", "receiver"} THEN refused(0)
       ELSE IF role = "driver" /\ UserRole(uid) # "driver" THEN refused(0)
       ELSE IF pk = 0 THEN refused(0)
       ELSE IF role = "driver" /\ NotYourDelivery(pk, uid) THEN refused(pk)
       ELSE /\ rooms' = [rooms EXCEPT ![sid] = @ \cup {AppRoom(key)}]
            /\ event' = Ev("join_delivery", sid, uid, pk, 0, "join_delivery", "",
                           AppRoom(key), NoOut, <<role>>)
            /\ UNCHANGED conns
    /\ UNCHANGED <<deliveries, now, db_up, locations, users, wire>>

DriverUpdateIncludeSelfAlt == TRUE
\* emit("driver_update", payload, room=..., include_self=False)
DriverUpdateIncludeSelf == FALSE

\* the body of on_driver_update; wire is left to the caller
DriverUpdateHandler(sid, key, lat, lng, speed) ==
    /\ conns[sid] # Absent
    /\ LET uid == conns[sid]
           pk == DeliveryQueryGet(key)
           ll == validate_coordinates(lat, lng)
           refused(target) ==
               /\ event' = Ev("driver_update", sid, uid, target, 0, "error", "",
                              AppRoom(key), NoOut, <<lat, lng>>)
               /\ UNCHANGED <<conns, rooms>>
       IN
       IF ~Authenticated(sid) THEN RefuseUnauthenticated("driver_update", sid)
       ELSE IF key = NoKey THEN refused(0)
       ELSE IF UserRole(uid) # "driver" THEN refused(0)
       ELSE IF pk = 0 THEN refused(0)
       ELSE IF NotYourDelivery(pk, uid) THEN refused(pk)
       ELSE IF ll[1] = NoVal THEN refused(pk)
       ELSE /\ event' = Ev("driver_update", sid, uid, pk, 0, "", "driver_update",
                           AppRoom(key),
                           Emit(rooms, AppRoom(key), sid, DriverUpdateIncludeSelf),
                           <<ll[1], ll[2], CoerceSpeed(speed)>>)
            /\ UNCHANGED <<conns, rooms>>
    /\ UNCHANGED <<deliveries, now, db_up, locations, users>>

\* the handler run on its own, with no other event of the sender in flight
on_driver_update(sid, key, lat, lng, speed) ==
    /\ DriverUpdateHandler(sid, key, lat, lng, speed)
    /\ UNCHANGED wire

MaxSent == 2

\* socketio.Server is created with its default async_handlers=True (app.py
\* passes no async_handlers), under eventlet.monkey_patch(): the server starts
\* a background task for each event it receives, and the handler's queries
\* (User.query.get, Delivery.query.get) are points where another task can run.
\* Receiving a driver_update numbers it and puts its handler in flight.
receive_driver_update(sid, key, lat, lng, speed) ==
    /\ conns[sid] # Absent
    /\ wire.sent < MaxSent
    /\ wire' = [wire EXCEPT
                  !.sent = @ + 1,
                  !.inflight = @ \cup {[n |-> wire.sent + 1, sid |-> sid, key |-> key,
                                        lat |-> lat, lng |-> lng, speed |-> speed]}]
    /\ UNCHANGED <<deliveries, now, db_up, conns, rooms, event, locations, users>>

\* one of the handlers in flight runs to its emit; the sockets the room event
\* is delivered to receive it after everything they received before
run_driver_update(h) ==
    /\ h \in wire.inflight
    /\ DriverUpdateHandler(h.sid, h.key, h.lat, h.lng, h.speed)
    /\ wire' = [wire EXCEPT
                  !.inflight = @ \ {h},
                  !.inbox = [s \in Sids |->
                                IF event'.out[s] > 0 THEN Append(@[s], <<h.sid, h.n, event'.payload[1], event'.payload[2]>>)
                                ELSE @[s]]]

on_receiver_update(sid, key, lat, lng) ==
    /\ conns[sid] # Absent
    /\ LET uid == conns[sid]
           pk == DeliveryQueryGet(key)
           ll == validate_coordinates(lat, lng)
           refused(target) ==
               /\ event' = Ev("receiver_update", sid, uid, target, 0, "error", "",
                              AppRoom(key), NoOut, <<lat, lng>>)
               /\ UNCHANGED <<conns, rooms>>
       IN
       IF ~Authenticated(sid) THEN RefuseUnauthenticated("receiver_update", sid)
       ELSE IF key = NoKey THEN refused(0)
       ELSE IF pk = 0 THEN refused(0)
       ELSE IF ll[1] = NoVal THEN refused(pk)
       ELSE \* emit("receiver_update", payload, room=...): include_self defaults to True
            /\ event' = Ev("receiver_update", sid, uid, pk, 0, "", "receiver_update",
                           AppRoom(key), Emit(rooms, AppRoom(key), sid, TRUE),
                           <<ll[1], ll[2]>>)
            /\ UNCHANGED <<conns, rooms>>
    /\ UNCHANGED <<deliveries, now, db_up, locations, users, wire>>

----------------------------------------------------------------------------
(* routes/socket_events.py *)

\* DeliverySession.query.filter_by(delivery_id=key).first(): models.py defines
\* no DeliverySession; it is taken to be the session record of the delivery
\* with that public delivery_id (status, completed_at). 0 stands for None.
DeliverySessionFirst(key) == DeliveryByDeliveryId(key)

\* Python truthiness of a request field, as all([...]) tests it
Falsy(x) == x = NoVal \/ x = 0

handle_connect(sid, uid) ==
    /\ conns[sid] = Absent
    /\ conns' = [conns EXCEPT ![sid] = uid]
    /\ event' = Ev("legacy_connect", sid, uid, 0, 0, "connection_success", "",
                   NoRoom, NoOut, NoPayload)
    /\ UNCHANGED <<deliveries, now, db_up, locations, users, wire, rooms>>

handle_join_delivery(sid, key) ==
    /\ conns[sid] # Absent
    /\ IF key = NoKey
       THEN /\ event' = Reply("legacy_join_delivery", sid, 0, "error")
            /\ UNCHANGED rooms
       ELSE LET joined == [rooms EXCEPT ![sid] = @ \cup {LegacyRoom(key)}] IN
            /\ rooms' = joined
            /\ event' = Ev("legacy_join_delivery", sid, conns[sid],
                           DeliverySessionFirst(key), 0, "joined_room", "user_joined",
                           LegacyRoom(key), Emit(joined, LegacyRoom(key), sid, FALSE),
                           NoPayload)
    /\ UNCHANGED <<deliveries, now, db_up, locations, users, wire, conns>>

\* handle_driver_location and handle_receiver_location differ in the event
\* names and in the columns they set. With a session row present the handler
\* builds DeliveryLocation(latitude=..., longitude=..., user_type=...), which
\* models.DeliveryLocation (role, lat, lng) rejects with TypeError: the
\* transaction is rolled back and the caller gets "error", with no broadcast.
handle_location(op, bcast, sid, key, lat, lng, has_phone) ==
    /\ conns[sid] # Absent
    /\ LET pk == DeliverySessionFirst(key) IN
       IF Falsy(key) \/ Falsy(lat) \/ Falsy(lng) \/ ~has_phone
       THEN event' = Reply(op, sid, 0, "error")
       ELSE IF pk # 0
       THEN event' = Reply(op, sid, pk, "error")
       ELSE event' = Ev(op, sid, conns[sid], 0, 0, "", bcast, LegacyRoom(key),
                        Emit(rooms, LegacyRoom(key), sid, FALSE), <<lat, lng>>)
    /\ UNCHANGED <<deliveries, now, db_up, locations, users, wire, conns, rooms>>

handle_driver_location(sid, key, lat, lng, has_phone) ==
    handle_location("driver_location_update", "driver_location_updated",
                    sid, key, lat, lng, has_phone)

handle_receiver_location(sid, key, lat, lng, has_phone) ==
    handle_location("receiver_location_update", "receiver_location_updated",
                    sid, key, lat, lng, has_phone)

handle_status_update(sid, key, status, has_phone) ==
    /\ conns[sid] # Absent
    /\ LET pk == DeliverySessionFirst(key) IN
       IF key = NoKey \/ status = "" \/ ~has_phone
       THEN /\ event' = Reply("delivery_status_update", sid, 0, "error")
            /\ UNCHANGED deliveries
       ELSE IF pk # 0 /\ ~db_up
       THEN /\ event' = Reply("delivery_status_update", sid, pk, "error")
            /\ UNCHANGED deliveries
       ELSE /\ deliveries' =
                 IF pk = 0 THEN deliveries
                 ELSE [deliveries EXCEPT
                         ![pk].status = status,
                         ![pk].completed_at =
                             IF status = "completed" THEN now ELSE @]
            /\ event' = Ev("delivery_status_update", sid, conns[sid], pk, 0, "",
                           "delivery_status_changed", LegacyRoom(key),
                           Emit(rooms, LegacyRoom(key), sid, TRUE), <<status>>)
    /\ UNCHANGED <<now, db_up, locations, users, wire, conns, rooms>>

handle_leave_delivery(sid, key) ==
    /\ conns[sid] # Absent
    /\ IF key = NoKey
       THEN /\ event' = Reply("leave_delivery", sid, 0, "")
            /\ UNCHANGED rooms
       ELSE LET left == [rooms EXCEPT ![sid] = @ \ {LegacyRoom(key)}] IN
            /\ rooms' = left
            /\ event' = Ev("leave_delivery", sid, conns[sid],
                           DeliverySessionFirst(key), 0, "", "user_left",
                           LegacyRoom(key), Emit(left, LegacyRoom(key), sid, TRUE),
                           NoPayload)
    /\ UNCHANGED <<deliveries, now, db_up, locations, users, wire, conns>>

----------------------------------------------------------------------------
(* app.py: POST /api/route *)

DEFAULT_SPEED_KMH == 30
INTERPOLATION_POINTS == 10

MaxProviderPoints == 3

\* request points {lat, lng}: missing, three in range, latitude out of range.
\* The in-range points differ by multiples of INTERPOLATION_POINTS - 1, so
\* that every interpolated point is a whole number.
RoutePointInputs == {<<NoVal, NoVal>>, <<0, 30>>, <<45, 30>>, <<45, 39>>, <<91, 30>>}

\* haversine_meters over the in-range request points, to the metre; None on a
\* ValueError or TypeError of the arithmetic
haversine_meters(lat1, lon1, lat2, lon2) ==
    LET p == <<lat1, lon1>>
        q == <<lat2, lon2>>
        pair == {p, q}
    IN  IF p = q THEN 0
        ELSE IF pair = {<<0, 30>>, <<45, 30>>} THEN 5003772
        ELSE IF pair = {<<0, 30>>, <<45, 39>>} THEN 5081734
        ELSE IF pair = {<<45, 30>>, <<45, 39>>} THEN 707276
        ELSE None

\* the list of num_points points [lat, lng] on the straight line
interpolate_points(lat1, lng1, lat2, lng2, num_points) ==
    [i \in 1..num_points |->
        <<lat1 + ((lat2 - lat1) * (i - 1)) \div (num_points - 1),
          lng1 + ((lng2 - lng1) * (i - 1)) \div (num_points - 1)>>]

BadNum == 998                     \* a JSON field that is not a number

\* GraphHopper coordinates are [lng, lat]
ProviderPoints == {<<30, 0>>, <<39, 45>>, <<31, 1>>}
ProviderCoordLists == UNION {[1..k -> ProviderPoints] : k \in 0..MaxProviderPoints}

Response(kind, coords, distance, time) ==
    [kind |-> kind, coords |-> coords, distance |-> distance, time |-> time]

NoResponse == Response("none", <<>>, NoVal, NoVal)

\* What requests.get(url, timeout=...) and the reading of its body can meet.
\*   no_key:            GRAPHHOPPER_KEY is unset, no call is made
\*   timeout:           requests.exceptions.Timeout
\*   connection_error:  requests.exceptions.ConnectionError
\*   http_error:        raise_for_status() on a non-2xx status
\*   not_json:          r.json() raises (a ValueError)
\*   scalar:            the body is a JSON number or null
\*   no_paths:          an object without "paths", or with an empty list
\*   path_not_object:   paths[0] is not an object
\*   points_not_object: paths[0]["points"] is not an object
\*   bad_point:         two or more coordinates, one of them not a pair
\*   paths:             paths[0] with points.coordinates = coords, and
\*                      distance (m) and time (ms), each a number, NoVal when
\*                      the key is missing, BadNum when it is not a number
ProviderResponses ==
    {Response(k, <<>>, NoVal, NoVal) :
        k \in {"no_key", "timeout", "connection_error", "http_error", "not_json",
               "scalar", "no_paths", "path_not_object", "points_not_object",
               "bad_point"}}
    \cup {Response("paths", c, d, t) :
            c \in ProviderCoordLists, d \in {NoVal, 5100000, BadNum},
            t \in {NoVal, 0, 3600000, BadNum}}

\* the exception the try block of api_route meets with this response, "" if none
RouteRaises(resp) ==
    CASE resp.kind = "timeout" -> "Timeout"
      [] resp.kind \in {"connection_error", "http_error"} -> "RequestException"
      [] resp.kind \in {"not_json", "bad_point"} -> "ValueError"
      [] resp.kind = "scalar" -> "TypeError"
      [] resp.kind \in {"path_not_object", "points_not_object"} -> "AttributeError"
      [] resp.kind = "paths" /\ Len(resp.coords) >= 2
                             /\ BadNum \in {resp.distance, resp.time} -> "TypeError"
      [] OTHER -> ""

\* except Timeout / except RequestException / except (ValueError, KeyError)
RouteCaught == {"Timeout", "RequestException", "ValueError", "KeyError"}

SameLocationAlt(s, e) == FALSE
\* s_lat == e_lat and s_lng == e_lng
SameLocation(s, e) == s[1] = e[1] /\ s[2] = e[2]

\* path.get("time", 0) / 1000.0 > 0
ProviderTimeUsedAlt(time) == time # NoVal
ProviderTimeUsed(time) == time # NoVal /\ time > 0

\* (distance_km / DEFAULT_SPEED_KMH) * 60.0 minutes, in milliseconds for a
\* distance in metres
FallbackEta(distance_m) == distance_m * ((60 * 60000) \div (1000 * DEFAULT_SPEED_KMH))

\* The answer of POST /api/route. distance_m is 1000 * distance_km and eta_ms
\* is 60000 * eta_min, which keeps both whole numbers; called tells whether
\* requests.get was called.
RouteEv(start, end, called, resp, code, raised, via, polyline, distance_m, eta_ms) ==
    [op |-> "api_route", start |-> start, end |-> end, called |-> called,
     resp |-> resp, code |-> code, raised |-> raised, via |-> via,
     polyline |-> polyline, distance_m |-> distance_m, eta_ms |-> eta_ms]

api_route(start, end, resp) ==
    /\ LET s == validate_coordinates(start[1], start[2])
           e == validate_coordinates(end[1], end[2])
           fallback == interpolate_points(s[1], s[2], e[1], e[2], INTERPOLATION_POINTS)
           distance_m == haversine_meters(s[1], s[2], e[1], e[2])
           eta_ms == FallbackEta(distance_m)
           called == resp.kind # "no_key"
           raised == RouteRaises(resp)
           n == Len(resp.coords)
       IN
       IF s[1] = NoVal \/ e[1] = NoVal
       THEN event' = RouteEv(start, end, FALSE, NoResponse, 400, "",
                             "invalid_coordinates", <<>>, None, None)
       ELSE IF SameLocation(s, e)
       THEN event' = RouteEv(start, end, FALSE, NoResponse, 200, "",
                             "same_location", <<s>>, 0, 0)
       ELSE IF distance_m = None
       THEN event' = RouteEv(start, end, FALSE, NoResponse, 500, "",
                             "calculation_error", <<>>, None, None)
       ELSE IF ~called
       THEN event' = RouteEv(start, end, FALSE, NoResponse, 200, "",
                             "estimate", fallback, distance_m, eta_ms)
       ELSE IF raised # "" /\ raised \notin RouteCaught
       THEN \* the exception leaves the view: 500 Internal Server Error
            event' = RouteEv(start, end, TRUE, resp, 500, raised, "", <<>>, None, None)
       ELSE IF raised # ""
       THEN event' = RouteEv(start, end, TRUE, resp, 200, raised,
                             "estimate", fallback, distance_m, eta_ms)
       ELSE IF resp.kind = "paths" /\ n >= 2
       THEN event' = RouteEv(start, end, TRUE, resp, 200, "", "graphhopper",
                             [i \in 1..n |-> <<resp.coords[i][2], resp.coords[i][1]>>],
                             IF resp.distance = NoVal THEN distance_m ELSE resp.distance,
                             IF ProviderTimeUsed(resp.time) THEN resp.time ELSE eta_ms)
       ELSE IF resp.kind = "paths" /\ n = 1
       THEN event' = RouteEv(start, end, TRUE, resp, 200, "",
                             "interpolated", fallback, distance_m, eta_ms)
       ELSE event' = RouteEv(start, end, TRUE, resp, 200, "",
                             "estimate", fallback, distance_m, eta_ms)
    /\ UNCHANGED <<deliveries, now, db_up, locations, users, wire, conns, rooms>>

----------------------------------------------------------------------------
(* Specifications *)

\* the HTTP handlers and the clock
NextLifecycle ==
    \/ Tick
    \/ \E uid \in SessionUids, phone \in PhoneInputs : create_session(uid, phone)
    \/ \E uid \in SessionUids, key \in Keys : end_session(uid, key)
    \/ \E key \in Keys : end_delivery(key)
    \/ \E a \in BOOLEAN, key \in Keys, st \in StatusInputs, n \in BOOLEAN :
          update_delivery_status(a, key, st, n)
    \/ \E a \in BOOLEAN, key \in Keys : cancel_delivery(a, key)

\* the Socket.IO handlers app.py registers
NextHub ==
    \/ \E sid \in Sids, uid \in SessionUids : on_connect(sid, uid)
    \/ \E sid \in Sids : on_disconnect(sid)
    \/ \E sid \in Sids, key \in Keys, role \in RoleInputs : on_join_delivery(sid, key, role)
    \/ \E sid \in Sids, key \in Keys, c \in CoordInputs, speed \in SpeedInputs :
          on_driver_update(sid, key, c[1], c[2], speed)
    \/ \E sid \in Sids, key \in Keys, c \in CoordInputs :
          on_receiver_update(sid, key, c[1], c[2])

\* the Socket.IO handlers register_socket_events registers
NextLegacy ==
    \/ \E sid \in Sids, uid \in {NoUser} \cup UserIds : handle_connect(sid, uid)
    \/ \E sid \in Sids : on_disconnect(sid)
    \/ \E sid \in Sids, key \in Keys : handle_join_delivery(sid, key)
    \/ \E sid \in Sids, key \in Keys, c \in CoordInputs, p \in BOOLEAN :
          handle_driver_location(sid, key, c[1], c[2], p)
    \/ \E sid \in Sids, key \in Keys, c \in CoordInputs, p \in BOOLEAN :
          handle_receiver_location(sid, key, c[1], c[2], p)
    \/ \E sid \in Sids, key \in Keys : handle_leave_delivery(sid, key)

\* the realtime status event of socket_events.py, with the joins that decide
\* who hears it
NextStatus ==
    \/ \E sid \in Sids, uid \in {NoUser} \cup UserIds : handle_connect(sid, uid)
    \/ \E sid \in Sids, key \in Keys : handle_join_delivery(sid, key)
    \/ \E sid \in Sids, key \in Keys, st \in StatusInputs, p \in BOOLEAN :
          handle_status_update(sid, key, st, p)

\* the hub with the driver_update handlers of one sender running as the
\* background tasks the server starts for them
NextOrder ==
    \/ \E sid \in Sids, uid \in UserIds : on_connect(sid, uid)
    \/ \E sid \in Sids : on_disconnect(sid)
    \/ \E sid \in Sids, key \in Pks, role \in {"driver", "receiver"} :
          on_join_delivery(sid, key, role)
    \/ \E sid \in Sids, key \in Pks, c \in {<<45, 30>>, <<91, 30>>} :
          receive_driver_update(sid, key, c[1], c[2], 50)
    \/ \E h \in wire.inflight : run_driver_update(h)

\* a request to POST /api/route, and what the provider will answer if asked
RouteRequest(start, end, resp) ==
    [op |-> "route_request", start |-> start, end |-> end, resp |-> resp]

\* the route estimate, a function of the request and of what the provider does
NextRoute ==
    /\ event.op = "route_request"
    /\ api_route(event.start, event.end, event.resp)

\* create_session up to the subscription check (lines 46-71): the request is
\* refused, or goes on holding the driver row it loaded with User.query.get
begin_create_session(uid, phone) ==
    /\ wire.sent < MaxSent
    /\ IF uid = NoUser \/ UserQueryGet(uid) = NoUser
       THEN /\ event' = Http("create_session", uid, NoKey, 0, 401)
            /\ wire' = [wire EXCEPT !.sent = @ + 1]
       ELSE IF normalizeRwandaNumber(phone) = ""
       THEN /\ event' = Http("create_session", uid, NoKey, 0, 400)
            /\ wire' = [wire EXCEPT !.sent = @ + 1]
       ELSE IF ~driver_has_active_subscription(uid)
       THEN /\ event' = Http("create_session", uid, NoKey, 0, 403)
            /\ wire' = [wire EXCEPT !.sent = @ + 1]
       ELSE /\ event' = Http("create_session_begin", uid, NoKey, 0, 0)
            /\ wire' = [wire EXCEPT !.sent = @ + 1,
                          !.inflight = @ \cup {[n |-> wire.sent + 1, uid |-> uid,
                                                phone |-> normalizeRwandaNumber(phone),
                                                total_sessions |-> users[uid].total_sessions]}]
    /\ UNCHANGED <<deliveries, now, db_up, conns, rooms, locations, users>>

\* the rest of create_session (lines 73-123) for a request that went on: the
\* row is inserted and the driver row written back with the total the request
\* loaded, plus one
finish_create_session(h) ==
    /\ h \in wire.inflight
    /\ LET pk == Len(deliveries) + 1 IN
       IF ~db_up
       THEN /\ event' = Http("create_session", h.uid, NoKey, 0, 500)
            /\ UNCHANGED <<deliveries, users>>
       ELSE /\ deliveries' = Append(deliveries, NewDelivery(h.uid, h.phone))
            /\ users' = DriverStats(h.uid, h.total_sessions)
            /\ event' = Http("create_session", h.uid, PublicId(pk), 0, 500)
    /\ wire' = [wire EXCEPT !.inflight = @ \ {h}]
    /\ UNCHANGED <<now, db_up, conns, rooms, locations>>

\* create-session requests served concurrently
NextCreate ==
    \/ Tick
    \/ \E uid \in SessionUids, phone \in PhoneInputs : begin_create_session(uid, phone)
    \/ \E h \in wire.inflight : finish_create_session(h)

\* the database becomes unreachable, or reachable again, between two requests
storage_fault ==
    /\ db_up' = ~db_up
    /\ event' = Http("storage_fault", NoUser, NoKey, 0, 0)
    /\ UNCHANGED <<deliveries, now, locations, users, wire, conns, rooms>>

\* the HTTP handlers over a database whose commits can fail
NextFault == NextLifecycle \/ storage_fault

\* the hub of app.py serving several sessions at once
MaxRoomSessions == 2
RoomPks == 1..MaxRoomSessions

NextRooms ==
    \/ \E sid \in Sids, uid \in UserIds : on_connect(sid, uid)
    \/ \E sid \in Sids : on_disconnect(sid)
    \/ \E sid \in Sids, key \in RoomPks, role \in {"driver", "receiver"} :
          on_join_delivery(sid, key, role)
    \/ \E sid \in Sids, key \in RoomPks : on_driver_update(sid, key, 45, 30, 50)
    \/ \E sid \in Sids, key \in RoomPks : on_receiver_update(sid, key, 45, 30)

Next ==
    \/ NextLifecycle \/ NextHub \/ NextLegacy \/ NextStatus \/ NextRoute
    \/ NextOrder \/ NextRooms \/ NextFault \/ NextCreate

Spec == Init /\ [][Next]_vars

\* Session lifecycle over HTTP, from the empty table
SpecLifecycle == Init /\ [][NextLifecycle]_vars

\* The rows the lifecycle handlers leave at clock 0: created (pending), set
\* active by update_delivery_status, completed by end_session, cancelled by
\* cancel_delivery.
Row(uid, status, completed_at, cancelled_at) ==
    [driver_id |-> uid, receiver_phone |-> normalizeRwandaNumber("ok"),
     status |-> status, started_at |-> None,
     completed_at |-> completed_at, cancelled_at |-> cancelled_at]

HubRows ==
    UNION {{Row(uid, "pending", None, None), Row(uid, "active", None, None),
            Row(uid, "completed", 0, None), Row(uid, "cancelled", None, 0)}
           : uid \in UserIds}

HubTables == [1..MaxDeliveries -> HubRows]

InitHub ==
    /\ deliveries \in HubTables
    /\ now = 0
    /\ db_up = TRUE
    /\ conns = [s \in Sids |-> Absent]
    /\ rooms = [s \in Sids |-> {}]
    /\ locations = {}
    /\ wire = NoWire
    /\ users = UsersOf(deliveries)
    /\ event = Http("init", NoUser, NoKey, 0, 0)

\* The realtime hub of app.py over a table of sessions in any lifecycle status
SpecHub == InitHub /\ [][NextHub]_vars

\* The handlers of routes/socket_events.py over the same tables. app.py never
\* calls register_socket_events, and both files register "connect",
\* "disconnect" and "join_delivery": the two handler sets are two hubs.
SpecLegacy == InitHub /\ [][NextLegacy]_vars

SpecStatus == InitHub /\ [][NextStatus]_vars

SpecOrder == InitHub /\ [][NextOrder]_vars

SpecFault == Init /\ [][NextFault]_vars

SpecCreate == Init /\ [][NextCreate]_vars

\* several sessions as create_session leaves them, each of any driver
InitRooms ==
    /\ deliveries \in [RoomPks -> {Row(uid, "pending", None, None) : uid \in UserIds}]
    /\ now = 0
    /\ db_up = TRUE
    /\ conns = [s \in Sids |-> Absent]
    /\ rooms = [s \in Sids |-> {}]
    /\ locations = {}
    /\ wire = NoWire
    /\ users = UsersOf(deliveries)
    /\ event = Http("init", NoUser, NoKey, 0, 0)

SpecRooms == InitRooms /\ [][NextRooms]_vars

InitRoute ==
    /\ deliveries = <<>>
    /\ now = 0
    /\ db_up = TRUE
    /\ conns = [s \in Sids |-> Absent]
    /\ rooms = [s \in Sids |-> {}]
    /\ locations = {}
    /\ wire = NoWire
    /\ users = UsersOf(<<>>)
    /\ \E start \in RoutePointInputs, end \in RoutePointInputs, resp \in ProviderResponses :
          event = RouteRequest(start, end, resp)

\* POST /api/route: one request, over every request body and everything the
\* provider can answer to it
SpecRoute == InitRoute /\ [][NextRoute]_vars

----------------------------------------------------------------------------
(* Properties *)

Terminal == {"completed", "cancelled"}

\* the last request was sent for an existing session by an authenticated
\* driver who is not its owner
NonOwnerDriver(e, table) ==
    /\ e.target # 0
    /\ e.uid \in UserIds
    /\ UserRole(e.uid) = "driver"
    /\ table[e.target].driver_id # e.uid

\* the sockets joined to the app.py room of session pk
Joined(pk) == {s \in Sids : conns[s] # Absent /\ AppRoom(pk) \in rooms[s]}

\* C1: a join_delivery with role=driver, or a driver_update, sent for a
\* session by a driver who does not own it is answered with an error, leaves
\* every room as it was and is broadcast to no connection.
C1_NonOwnerDriverRefused ==
    [][(/\ \/ event'.op = "join_delivery" /\ event'.payload = <<"driver">>
           \/ event'.op = "driver_update"
        /\ NonOwnerDriver(event', deliveries'))
       => (/\ event'.reply = "error"
           /\ event'.bcast = ""
           /\ event'.out = NoOut
           /\ rooms' = rooms)]_vars

\* a non-owner's driver_update was refused while another socket sat in the
\* session's room
C1_Witness ==
    /\ event.op = "driver_update"
    /\ NonOwnerDriver(event, deliveries)
    /\ event.reply = "error"
    /\ \E s \in Joined(event.target) : s # event.sid

\* C2: an accepted driver_update is delivered exactly once to every other
\* connection joined to the session's room, and not at all to the sender or to
\* a connection outside the room.
C2_DriverUpdateFanOut ==
    (event.op = "driver_update" /\ event.bcast = "driver_update")
    => \A s \in Sids :
          event.out[s] = IF s \in Joined(event.target) /\ s # event.sid
                         THEN 1 ELSE 0

\* the sender is itself in the room and another socket received the update
C2_Witness ==
    /\ event.op = "driver_update"
    /\ event.bcast = "driver_update"
    /\ event.sid \in Joined(event.target)
    /\ event.out[event.sid] = 0
    /\ \E s \in Joined(event.target) : s # event.sid /\ event.out[s] = 1

\* C3: an accepted receiver_update from a connection joined to the session
\* goes to the other joined connections and is not echoed to the sender.
C3_ReceiverUpdateNoEcho ==
    (/\ event.op = "receiver_update"
     /\ event.bcast = "receiver_update"
     /\ event.sid \in Joined(event.target))
    => \A s \in Sids :
          event.out[s] = IF s \in Joined(event.target) /\ s # event.sid
                         THEN 1 ELSE 0

\* C4: once a session's status is Completed or Cancelled, no operation changes
\* it to a different value.
C4_TerminalStatusKept ==
    [][\A pk \in 1..Len(deliveries) :
          deliveries[pk].status \in Terminal
          => deliveries'[pk].status = deliveries[pk].status]_vars

AllowedTransitions ==
    {<<"pending", "active">>, <<"active", "completed">>,
     <<"active", "cancelled">>, <<"pending", "cancelled">>}

\* C5: every status change is one of Pending->Active, Active->Completed,
\* Active->Cancelled, Pending->Cancelled; a request for any other change
\* leaves the status as it was.
C5_OnlyAllowedTransitions ==
    [][\A pk \in 1..Len(deliveries) :
          deliveries'[pk].status # deliveries[pk].status
          => <<deliveries[pk].status, deliveries'[pk].status>> \in AllowedTransitions]_vars

\* C6: every end-session request the owning driver issues for an existing
\* session, the first as well as each repeat, returns 200 and leaves the
\* status Completed.
C6_EndSessionIdempotent ==
    (/\ event.op = "end_session"
     /\ event.target # 0
     /\ deliveries[event.target].driver_id = event.uid)
    => (event.code = 200 /\ deliveries[event.target].status = "completed")

\* the owner ended a session that was already Completed
C6_Witness ==
    /\ event.op = "end_session"
    /\ event.target # 0
    /\ deliveries[event.target].driver_id = event.uid
    /\ event.before = "completed"
    /\ event.code = 200

\* C7: an end-session or end-delivery request for a session that a completion
\* has already made Completed changes no field of it; completed_at keeps the
\* value the first completion set.
C7_RepeatedCompletionNoOp ==
    [][\A pk \in 1..Len(deliveries) :
          (/\ event'.op \in {"end_session", "end_delivery"}
           /\ event'.target = pk
           /\ deliveries[pk].status = "completed"
           /\ deliveries[pk].completed_at # None)
          => deliveries'[pk] = deliveries[pk]]_vars

\* C8: a join_delivery for a session that does not exist, or that is Completed
\* or Cancelled, is answered with an error and adds the caller to no room.
C8_JoinEndedRefused ==
    [][(/\ event'.op = "join_delivery"
        /\ (event'.target = 0 \/ event'.before \in Terminal))
       => (event'.reply = "error" /\ rooms' = rooms)]_vars

\* C9: a driver_update or receiver_update for a session that is Completed or
\* Cancelled is answered with an error and broadcast to no connection.
C9_UpdateEndedRefused ==
    (/\ event.op \in {"driver_update", "receiver_update"}
     /\ event.target # 0
     /\ event.before \in Terminal)
    => (event.reply = "error" /\ event.bcast = "" /\ event.out = NoOut)

\* C10: right after a join_delivery that is accepted for a Pending session,
\* the session is Active and started_at is set.
C10_FirstJoinActivates ==
    (/\ event.op = "join_delivery"
     /\ event.reply = "join_delivery"
     /\ event.before = "pending")
    => (/\ deliveries[event.target].status = "active"
        /\ deliveries[event.target].started_at # None)

----------------------------------------------------------------------------
(* Properties of POST /api/route *)

ValidPoint(p) == validate_coordinates(p[1], p[2])[1] # NoVal

\* the last step answered a route request for two in-range points
RouteAnswered == event.op = "api_route" /\ ValidPoint(event.start) /\ ValidPoint(event.end)

\* the answer is the interpolated fallback for the request
IsFallback(e) ==
    /\ e.code = 200
    /\ e.via \in {"estimate", "interpolated"}
    /\ e.polyline = interpolate_points(e.start[1], e.start[2], e.end[1], e.end[2],
                                       INTERPOLATION_POINTS)
    /\ e.distance_m = haversine_meters(e.start[1], e.start[2], e.end[1], e.end[2])
    /\ e.eta_ms = FallbackEta(e.distance_m)

\* C11: for two distinct in-range points, whenever the provider call fails
\* (timeout, network error, non-2xx status, or a body that cannot be read as
\* a route), the request is answered 200 with the interpolated fallback.
C11_ProviderFailureAbsorbed ==
    (/\ RouteAnswered
     /\ event.start # event.end
     /\ event.called
     /\ RouteRaises(event.resp) # "")
    => IsFallback(event)

\* the provider's path of a well-formed response, as [lat, lng] points
ProviderPolyline(resp) ==
    [i \in 1..Len(resp.coords) |-> <<resp.coords[i][2], resp.coords[i][1]>>]

\* the provider answered with a route that can be read
ProviderSucceeded ==
    /\ RouteAnswered
    /\ event.called
    /\ event.resp.kind = "paths"
    /\ RouteRaises(event.resp) = ""

\* C12 (as stated): with 2 or more provider points, polyline, distance and ETA
\* are the provider's and the source is the provider; with exactly 1 point the
\* answer is the interpolated fallback.
C12_ProviderValuesUsed ==
    (/\ ProviderSucceeded
     /\ event.resp.distance # NoVal
     /\ event.resp.time # NoVal)
    => (/\ Len(event.resp.coords) >= 2
           => (/\ event.via = "graphhopper"
               /\ event.polyline = ProviderPolyline(event.resp)
               /\ event.distance_m = event.resp.distance
               /\ event.eta_ms = event.resp.time)
        /\ Len(event.resp.coords) = 1 => IsFallback(event))

\* C12 (amended): with 2 or more provider points the polyline is the
\* provider's and the source is the provider; the distance is the provider's
\* when it gives one and the ETA is the provider's when it gives a positive
\* time, and each is the fallback's otherwise. With exactly 1 point the answer
\* is the interpolated fallback.
C12_ProviderResult ==
    ProviderSucceeded
    => (/\ Len(event.resp.coords) >= 2
           => (/\ event.code = 200
               /\ event.via = "graphhopper"
               /\ event.polyline = ProviderPolyline(event.resp)
               /\ event.distance_m =
                     IF event.resp.distance # NoVal THEN event.resp.distance
                     ELSE haversine_meters(event.start[1], event.start[2],
                                           event.end[1], event.end[2])
               /\ IF event.resp.time # NoVal /\ event.resp.time > 0
                  THEN event.eta_ms = event.resp.time
                  ELSE event.eta_ms =
                          FallbackEta(haversine_meters(event.start[1], event.start[2],
                                                       event.end[1], event.end[2])))
        /\ Len(event.resp.coords) = 1 => IsFallback(event))

\* the provider gave 2 or more points and a time of 0, and the answer carries
\* the provider's path with the fallback's ETA
C12_Witness ==
    /\ ProviderSucceeded
    /\ Len(event.resp.coords) >= 2
    /\ event.resp.time = 0
    /\ event.via = "graphhopper"
    /\ event.eta_ms > 0

\* C13: a request whose start and end are the same in-range point is answered
\* same_location with a polyline of that one point, distance 0 and ETA 0, and
\* the provider is not called.
C13_SameLocationShortCircuit ==
    (RouteAnswered /\ event.start = event.end)
    => (/\ event.code = 200
        /\ event.via = "same_location"
        /\ event.polyline = <<event.start>>
        /\ event.distance_m = 0
        /\ event.eta_ms = 0
        /\ ~event.called)

\* a same-point request was answered
C13_Witness ==
    /\ RouteAnswered
    /\ event.start = event.end
    /\ event.via = "same_location"
    /\ Len(event.polyline) = 1

\* C14: every answered route has a polyline that starts at the request's start
\* and ends at its end.
C14_PolylineEndpoints ==
    (RouteAnswered /\ event.code = 200)
    => (/\ Len(event.polyline) >= 1
        /\ event.polyline[1] = event.start
        /\ event.polyline[Len(event.polyline)] = event.end)

----------------------------------------------------------------------------
(* Properties of the hub, continued *)

\* C17: a socket that has received two driver_update events of one sender
\* received them in the order the sender sent them.
C17_PerSenderOrder ==
    \A s \in Sids : \A i, j \in 1..Len(wire.inbox[s]) :
        (i < j /\ wire.inbox[s][i][1] = wire.inbox[s][j][1])
        => wire.inbox[s][i][2] < wire.inbox[s][j][2]

\* C15: a connect that carries no identity, or the identity of no user, is
\* refused and leaves nothing behind: a socket that is not connected is in no
\* room, receives no room event and is the sender of none.
C15_RefusedConnectLeavesNothing ==
    /\ (event.op = "connect" /\ event.uid \notin UserIds)
       => (/\ event.reply = "refused"
           /\ conns[event.sid] = Absent
           /\ rooms[event.sid] = {})
    /\ \A s \in Sids :
          conns[s] = Absent
          => (/\ rooms[s] = {}
              /\ event.out[s] = 0
              /\ (event.sid = s => event.bcast = ""))

\* a connect with the identity of no user was refused while another socket sat
\* in a session's room
C15_Witness ==
    /\ event.op = "connect"
    /\ event.uid = StaleUid
    /\ event.reply = "refused"
    /\ conns[event.sid] = Absent
    /\ \E s \in Sids, pk \in Pks : s \in Joined(pk)

\* C16: a disconnect changes no session row and no stored position.
C16_DisconnectKeepsSessions ==
    [][event'.op = "disconnect"
       => (deliveries' = deliveries /\ locations' = locations)]_vars

\* the owner of a session that is Pending or Active disconnected, and the
\* session is as it was
C16_Witness ==
    /\ event.op = "disconnect"
    /\ conns[event.sid] = Absent
    /\ \E pk \in 1..Len(deliveries) :
          /\ deliveries[pk].driver_id = event.uid
          /\ deliveries[pk].status \in {"pending", "active"}

\* the driver is within the trial period (the code knows no other entitlement)
Entitled(driver) == trial_end_date(driver) # None /\ now < trial_end_date(driver)

\* C18: a create-session request of a driver without entitlement, otherwise
\* well-formed, is answered 403 and creates no session.
C18_UnentitledCreateRefused ==
    [][(/\ event'.op = "create_session"
        /\ event'.uid \in UserIds
        /\ ~Entitled(event'.uid)
        /\ event'.code # 400)
       => (event'.code = 403 /\ deliveries' = deliveries)]_vars

\* latitude in [-90, 90] and longitude in [-180, 180], both present
InRange(lat, lng) ==
    /\ lat # NoVal /\ lng # NoVal
    /\ -90 <= lat /\ lat <= 90
    /\ -180 <= lng /\ lng <= 180

\* C19: a driver_update or receiver_update whose coordinates are missing, not
\* numbers or out of range is answered with an error to the sender, is
\* delivered to no socket and changes no session, stored position or room.
C19_InvalidCoordinatesRefused ==
    [][(/\ event'.op \in {"driver_update", "receiver_update"}
        /\ Len(event'.payload) >= 2
        /\ ~InRange(event'.payload[1], event'.payload[2]))
       => (/\ event'.reply = "error"
           /\ event'.bcast = ""
           /\ event'.out = NoOut
           /\ deliveries' = deliveries
           /\ locations' = locations
           /\ rooms' = rooms)]_vars

\* the owner's driver_update with a longitude out of range was refused while
\* another socket sat in the session's room
C19_Witness ==
    /\ event.op = "driver_update"
    /\ event.payload = <<45, 181>>
    /\ event.reply = "error"
    /\ event.target # 0
    /\ deliveries[event.target].driver_id = event.uid
    /\ \E s \in Joined(event.target) : s # event.sid

\* C20: after an accepted driver_update (receiver_update) for a session, the
\* stored driver (receiver) position of that session is the update's.
C20_StoredPositionFollows ==
    (event.op \in {"driver_update", "receiver_update"} /\ event.bcast # "")
    => \E l \in locations :
          /\ l.delivery_id = event.target
          /\ l.role = (IF event.op = "driver_update" THEN "driver" ELSE "receiver")
          /\ l.lat = event.payload[1]
          /\ l.lng = event.payload[2]

\* C21: once the concurrent driver updates of a session have all been handled,
\* the last stored driver position of the session is the position of the last
\* driver_update its subscribers received (positions are stored in the order
\* in which they are broadcast).
C21_StoredOrderIsBroadcastOrder ==
    \A s \in Sids :
        (wire.inflight = {} /\ Len(wire.inbox[s]) > 0)
        => LET last == wire.inbox[s][Len(wire.inbox[s])] IN
           \E l \in locations :
              /\ l.role = "driver"
              /\ \A o \in locations : o.role = "driver" => o.id <= l.id
              /\ l.lat = last[3]
              /\ l.lng = last[4]

----------------------------------------------------------------------------
(* Properties of the session rows, continued *)

\* C22: no step removes a session or changes the primary key, the driver_id
\* or the receiver_phone of an existing session, and a session that a step
\* creates carries the caller as driver_id and the normalized phone.
C22_IdentityFieldsImmutable ==
    [][/\ Len(deliveries') >= Len(deliveries)
       /\ \A pk \in 1..Len(deliveries) :
             /\ deliveries'[pk].driver_id = deliveries[pk].driver_id
             /\ deliveries'[pk].receiver_phone = deliveries[pk].receiver_phone
       /\ \A pk \in (Len(deliveries) + 1)..Len(deliveries') :
             /\ deliveries'[pk].driver_id = event'.uid
             /\ deliveries'[pk].receiver_phone = "250788123456"]_vars

\* a session that has been ended, cancelled and set by an administrator still
\* exists under its key
C22_Witness ==
    /\ Len(deliveries) = 1
    /\ deliveries[1].completed_at # None
    /\ deliveries[1].cancelled_at # None
    /\ deliveries[1].status = "failed"

\* C23: timestamps follow the status: a session whose status is "completed"
\* has completed_at set, and a session whose status is "cancelled" has
\* cancelled_at set.
C23_TimestampsFollowStatus ==
    \A pk \in 1..Len(deliveries) :
        /\ deliveries[pk].status = "completed" => deliveries[pk].completed_at # None
        /\ deliveries[pk].status = "cancelled" => deliveries[pk].cancelled_at # None

----------------------------------------------------------------------------
(* Properties of the hub serving several sessions *)

\* C24: a socket is in at most one session room at a time.
C24_AtMostOneRoom ==
    \A s \in Sids : Cardinality(rooms[s]) <= 1

\* C28: a room event of a session is delivered only to connected sockets that
\* are in the room of that session.
C28_SessionsIsolated ==
    \A s \in Sids :
        event.out[s] > 0 => (conns[s] # Absent /\ AppRoom(event.target) \in rooms[s])

\* an update of one session is broadcast and received while another connected
\* socket, joined only to the other session, receives nothing
C28_Witness ==
    /\ event.bcast # ""
    /\ \E s, o \in Sids :
          /\ event.out[s] > 0
          /\ conns[o] # Absent
          /\ rooms[o] # {}
          /\ AppRoom(event.target) \notin rooms[o]
          /\ event.out[o] = 0

----------------------------------------------------------------------------
(* Properties of the session rows under storage failures *)

\* C25: a create_session or end_session request that reaches its commit while
\* the commit fails is answered 500 and leaves every session row and every
\* driver's last_session_at and total_sessions as they were.
C25_StorageFailureRolledBack ==
    [][(/\ ~db_up
        /\ event'.op \in {"create_session", "end_session"}
        /\ event'.code \notin {400, 401, 403, 404})
       => (/\ event'.code = 500
           /\ deliveries' = deliveries
           /\ users' = users)]_vars

\* the owner's end-session request for a session that is not completed has
\* failed at its commit
C25_Witness ==
    /\ ~db_up
    /\ event.op = "end_session"
    /\ event.code = 500
    /\ event.target # 0
    /\ deliveries[event.target].status # "completed"
    /\ deliveries[event.target].completed_at = None
    /\ users[event.uid].total_sessions = 1

----------------------------------------------------------------------------
(* Properties of the hub, concluded *)

\* C26: a join_delivery as driver, or a driver_update with valid coordinates,
\* that the owner of a session sends with the identifier create_session
\* returned for it is resolved to that session and is not answered with an
\* error.
C26_ReturnedIdentifierAccepted ==
    \A pk \in 1..Len(deliveries) :
        (/\ event.op \in {"join_delivery", "driver_update"}
         /\ event.room = AppRoom(PublicId(pk))
         /\ event.uid = deliveries[pk].driver_id
         /\ event.op = "join_delivery" => event.payload = <<"driver">>
         /\ event.op = "driver_update" => InRange(event.payload[1], event.payload[2]))
        => (event.target = pk /\ event.reply # "error")

\* C27: a driver_update or receiver_update is broadcast to the room of a
\* session only if the sending socket is in that room.
C27_OnlyJoinedPublish ==
    (event.op \in {"driver_update", "receiver_update"} /\ event.bcast # "")
    => event.room \in rooms[event.sid]

----------------------------------------------------------------------------
(* Properties of the session rows, concluded *)

\* C29: an end-session or end-delivery request changes the status of a session
\* only if its caller is the driver who owns the session.
C29_OnlyOwnerEnds ==
    [][\A pk \in 1..Len(deliveries) :
          (/\ event'.op \in {"end_session", "end_delivery"}
           /\ deliveries'[pk].status # deliveries[pk].status)
          => event'.uid = deliveries[pk].driver_id]_vars

\* C30: once every create-session request has been answered, each driver's
\* total_sessions is the number of sessions that driver has created.
C30_TotalSessionsCounts ==
    wire.inflight = {}
    => \A u \in UserIds :
          users[u].total_sessions =
              Cardinality({pk \in 1..Len(deliveries) : deliveries[pk].driver_id = u})

====
